---------------------------- MODULE Spec2Model ----------------------------
(***************************************************************************)
(* gowitness probe engine.                                                 *)
(*                                                                         *)
(*   Spec / LiveSpec : the probe orchestrator, Runner.Run, with its worker *)
(*     / CloseSpec     pool, the unbuffered Targets channel, the run-wide  *)
(*                     context and the writer fan-out (pkg/runner).        *)
(*                     Driver.Witness is the Driver interface: a call that *)
(*                     returns ChromeNotFoundError, another error, or a    *)
(*                     Result with some ResponseCode.                      *)
(*   WitnessSpec     : the Witness calls of a driver back-end (Chromedp or *)
(*                     Gorod), one after the other: the per-target browser *)
(*                     allocation, the DevTools event handlers, the body   *)
(*                     fetches and the sequencing steps                    *)
(*                     (pkg/runner/drivers).                               *)
(*   EventSpec       : the same calls without body fetches, with one more  *)
(*                     network event per probe.                            *)
(*   HeaderSpec      : the start of the calls with Chrome.Headers set, up  *)
(*                     to the extra headers handed to the browser.         *)
(***************************************************************************)
EXTENDS Integers, Sequences, FiniteSets, TLC

(***************************************************************************)
(* Bounds of the model.                                                    *)
(***************************************************************************)
\* Scan.Threads: the number of worker goroutines Run spawns.
NumWorkers == 2
\* len(run.writers)
NumWriters == 2
\* Targets whose handling is recorded in the history variables; the
\* producer may go on sending after them.
MaxTargets == 2

\* A loop that starts one worker too many.
MoreWorkers == 1..(NumWorkers + 1)

Workers == 1..NumWorkers
Writers == 1..NumWriters
Slots   == 1..MaxTargets

(***************************************************************************)
(* Targets are strings, modelled as sequences of one-character strings.    *)
(***************************************************************************)
LowerLetters == {"a", "e", "f", "h", "i", "l", "p", "s", "t"}
UpperLetters == {"H", "P", "S", "T"}
SchemeMarks  == {"1", "+", "-", "."}

ToLowerChar(c) ==
    CASE c = "H" -> "h"
      [] c = "P" -> "p"
      [] c = "S" -> "s"
      [] c = "T" -> "t"
      [] OTHER   -> c

ToLower(s) == [i \in 1..Len(s) |-> ToLowerChar(s[i])]

\* The strings a producer sends on the Targets channel.
TargetSet ==
    { <<"h","t","t","p",":","/","/","a">>,
      <<"H","T","T","P","S",":","/","/","a">>,
      <<"f","i","l","e",":","/","/","/","a">>,
      <<"/","a">>,
      <<"a">>,
      <<":","a">>,
      <<>> }

\* Scan.UriFilter, the default of NewDefaultOptions.
UriFilter == { <<"h","t","t","p">>, <<"h","t","t","p","s">> }

(***************************************************************************)
(* net/url.getScheme as called by url.ParseRequestURI: scan for the first  *)
(* ':'; letters are fine anywhere, digits and "+-." not in first place,    *)
(* any other character means there is no scheme.                           *)
(***************************************************************************)
RECURSIVE getSchemeFrom(_, _)
getSchemeFrom(rawURL, i) ==
    IF i > Len(rawURL)
    THEN [scheme |-> <<>>, rest |-> rawURL, err |-> FALSE]
    ELSE LET c == rawURL[i] IN
         CASE c \in LowerLetters \cup UpperLetters ->
                getSchemeFrom(rawURL, i + 1)
           [] c \in SchemeMarks ->
                IF i = 1
                THEN [scheme |-> <<>>, rest |-> rawURL, err |-> FALSE]
                ELSE getSchemeFrom(rawURL, i + 1)
           [] c = ":" ->
                IF i = 1
                THEN [scheme |-> <<>>, rest |-> <<>>, err |-> TRUE]
                ELSE [scheme |-> SubSeq(rawURL, 1, i - 1),
                      rest   |-> SubSeq(rawURL, i + 1, Len(rawURL)),
                      err    |-> FALSE]
           [] OTHER ->
                [scheme |-> <<>>, rest |-> rawURL, err |-> FALSE]

getScheme(rawURL) == getSchemeFrom(rawURL, 1)

\* url.ParseRequestURI(target): [err, Scheme].  The host and path of the
\* strings of TargetSet always parse, so only the scheme split can fail.
ParseRequestURI(rawURL) ==
    IF rawURL = <<>>
    THEN [err |-> TRUE, Scheme |-> <<>>]                 \* "empty url"
    ELSE LET g == getScheme(rawURL) IN
         IF g.err
         THEN [err |-> TRUE, Scheme |-> <<>>]            \* "missing protocol scheme"
         ELSE IF (g.rest = <<>> \/ g.rest[1] # "/") /\ g.scheme = <<>>
              THEN [err |-> TRUE, Scheme |-> <<>>]       \* "invalid URI for request"
              ELSE [err |-> FALSE, Scheme |-> ToLower(g.scheme)]

\* checkUrl with the scheme filter left out.
checkUrlNoFilter(target) == ParseRequestURI(target).err

\* Runner.checkUrl: TRUE when it returns an error.
checkUrl(target) ==
    LET u == ParseRequestURI(target) IN
    IF u.err THEN TRUE ELSE u.Scheme \notin UriFilter

\* RFC 3986: target is an absolute URI, scheme ":" ..., whose scheme (letters,
\* then letters, digits, "+", "-", "."; case-insensitive) is in UriFilter.
AbsoluteAllowed(target) ==
    \E k \in 2..Len(target) :
        /\ target[k] = ":"
        /\ target[1] \in LowerLetters \cup UpperLetters
        /\ \A i \in 1..(k - 1) :
              target[i] \in LowerLetters \cup UpperLetters \cup SchemeMarks
        /\ ToLower(SubSeq(target, 1, k - 1)) \in UriFilter

(***************************************************************************)
(* What Driver.Witness hands back to the worker.                           *)
(***************************************************************************)
ResponseCodes == {0, 200}

WitnessReturns ==
    { [kind |-> "ChromeNotFound", ResponseCode |-> 0],
      [kind |-> "error",          ResponseCode |-> 0] }
    \cup { [kind |-> "result", ResponseCode |-> rc] : rc \in ResponseCodes }

\* The worker's branch on the value Witness returned (Run, after the call):
\* "cancel" (cancel the run and return), "continue", or "write".
AlwaysCancel(ret) ==
    IF ret.kind # "result" THEN "cancel"
    ELSE IF ret.ResponseCode = 0 THEN "continue" ELSE "write"

NeverCancel(ret) ==
    IF ret.kind # "result" THEN "continue"
    ELSE IF ret.ResponseCode = 0 THEN "continue" ELSE "write"

WriteZeroCode(ret) ==
    IF ret.kind = "ChromeNotFound" THEN "cancel"
    ELSE IF ret.kind = "error" THEN "continue"
    ELSE "write"

AfterWitness(ret) ==
    IF ret.kind = "ChromeNotFound" THEN "cancel"
    ELSE IF ret.kind = "error" THEN "continue"
    ELSE IF ret.ResponseCode = 0 THEN "continue"
    ELSE "write"

\* Runner.runWriters after writer j returned: the index of the writer to
\* call next, 0 when the loop is left (the last writer, or return err).
RetryWriter(j, failed) ==
    IF failed THEN j ELSE IF j < NumWriters THEN j + 1 ELSE 0

NextWriter(j, failed) ==
    IF failed THEN 0 ELSE IF j < NumWriters THEN j + 1 ELSE 0

(***************************************************************************)
(* State of a run.                                                         *)
(***************************************************************************)
VARIABLES
    runState,    \* "new", "running" (inside Run) or "returned"
    pc,          \* per worker: "idle", "select", "witness", "write", "done"
    cur,         \* per worker: the slot of the target in hand, 0 for none
                 \*   or for a target past the recorded ones
    wi,          \* per worker: the writer runWriters calls next
    cancelled,   \* run.ctx is done
    closed,      \* the owner closed run.Targets
    offering,    \* a producer is blocked in a send on run.Targets
    nrecv,       \* history: the number of targets received, up to MaxTargets
    absOK,       \* history: per slot, the target received was an absolute
                 \*   URI with a scheme of UriFilter
    outcome,     \* history: per slot, what became of the target
    witnessed,   \* history: per slot, the number of Witness calls
    wcalls,      \* history: per slot, the writers invoked, in order
    bnfSeen,     \* history: Witness returned ChromeNotFoundError
    driverClosed \* Runner.Close was called: the driver is closed

(***************************************************************************)
(* State of one Witness call of a driver back-end.                         *)
(***************************************************************************)
VARIABLES
    opts,          \* the runner.Options the driver was built with
    wpc,           \* where the sequencing steps of Witness stand
    wret,          \* what Witness returned: [kind, err]
    expired,       \* the per-target timeout context is done
    spawned,       \* Chromedp: go chromedp.ListenTarget(...) was executed
    listening,     \* the event handler is registered and takes events
    dismissEvents, \* Gorod: the flag the EachEvent callbacks return
    first,         \* RequestID of the first requestWillBeSent, 0 for nil
    netlog,        \* RequestID -> NetworkLog of the request
    result,        \* the models.Result under construction
    nev,           \* the number of DevTools events emitted so far
    populated,     \* history: how often the top-level fields were written
    popBy,         \* history: the RequestIDs whose response wrote them
    navErr,        \* history: what Navigate returned
    jsFailed,      \* history: the user JavaScript failed to evaluate
    shotTried,     \* history: the screenshot step was executed
    allocCtx,      \* Chromedp: browserInstance.allocCtx of this call:
                   \*   "none", "live" or "done" (cancelled and terminated)
    userData,      \* Chromedp: browserInstance.userData of this call, the
                   \*   directory os.MkdirTemp made, 0 for none
    tmpDirs,       \* the user-data directories of Witness calls on disk
    fetches,       \* the body-fetch goroutines in flight: the index they
                   \*   captured, where they stand, and the response event
                   \*   of their closure (req, status, url)
    lfFirst,       \* history: loadingFailed was handled for the first request
    shotFailed,    \* history: the screenshot capture failed
    termOrder,     \* history: the RequestIDs in the order of their first
                   \*   handled responseReceived or loadingFailed
    unguarded,     \* history: a sequencing step touched the Result outside
                   \*   resultMutex while a handler could run
    lateWrites,    \* history: a body fetch wrote to the Result after Witness
                   \*   had returned it
    evBudget,      \* the number of network events the browser emits during
                   \*   one probe
    extraHeaders,  \* the headers handed to the browser: the pairs parsed
                   \*   from Chrome.Headers
    accepted,      \* history: the lines of Chrome.Headers that parsed
    warned         \* history: the lines logged as not parsing

rvars == << runState, pc, cur, wi, cancelled, closed, offering,
            nrecv, absOK, outcome, witnessed, wcalls, bnfSeen, driverClosed >>

dvars == << opts, wpc, wret, expired, spawned, listening, dismissEvents,
            first, netlog, result, nev, populated, popBy, navErr, jsFailed,
            shotTried, allocCtx, userData, tmpDirs, fetches, lfFirst,
            shotFailed, termOrder, unguarded, lateWrites, evBudget,
            extraHeaders, accepted, warned >>

vars == << rvars, dvars >>

hist == << nrecv, absOK, outcome, witnessed, wcalls, bnfSeen >>


RunnerInit ==
    /\ runState = "new"
    /\ pc = [w \in Workers |-> "idle"]
    /\ cur = [w \in Workers |-> 0]
    /\ wi = [w \in Workers |-> 0]
    /\ cancelled = FALSE
    /\ closed = FALSE
    /\ offering = FALSE
    /\ nrecv = 0
    /\ absOK = [i \in Slots |-> FALSE]
    /\ outcome = [i \in Slots |-> "none"]
    /\ witnessed = [i \in Slots |-> 0]
    /\ wcalls = [i \in Slots |-> <<>>]
    /\ bnfSeen = FALSE
    /\ driverClosed = FALSE

(***************************************************************************)
(* The owner of the Targets channel.                                       *)
(***************************************************************************)
\* A send on the unbuffered channel: it blocks until a worker receives, and
\* the string sent is seen by nobody before that (WorkerReceive draws it).
ProducerOffer ==
    /\ ~offering /\ ~closed
    /\ offering' = TRUE
    /\ UNCHANGED << runState, pc, cur, wi, cancelled, closed, hist,
                    driverClosed >>
    /\ UNCHANGED dvars

\* close(run.Targets), by its owner only.
ProducerClose ==
    /\ ~offering /\ ~closed
    /\ closed' = TRUE
    /\ UNCHANGED << runState, pc, cur, wi, cancelled, offering, hist,
                    driverClosed >>
    /\ UNCHANGED dvars

(***************************************************************************)
(* Runner.Run                                                              *)
(***************************************************************************)
\* Run is called: Scan.Threads workers are started.
RunStart ==
    /\ runState = "new"
    /\ runState' = "running"
    /\ pc' = [w \in Workers |-> "select"]
    /\ UNCHANGED << cur, wi, cancelled, closed, offering, hist,
                    driverClosed >>
    /\ UNCHANGED dvars

\* select: case <-run.ctx.Done(): return
WorkerCancelled(w) ==
    /\ pc[w] = "select"
    /\ cancelled
    /\ pc' = [pc EXCEPT ![w] = "done"]
    /\ UNCHANGED << runState, cur, wi, cancelled, closed, offering, hist,
                    driverClosed >>
    /\ UNCHANGED dvars

\* A worker that stays in its select when the channel is closed.
WorkerKeepsWaiting(w) ==
    /\ pc[w] = "select"
    /\ closed
    /\ UNCHANGED vars

\* select: case target, ok := <-run.Targets with !ok: return
WorkerClosed(w) ==
    /\ pc[w] = "select"
    /\ closed
    /\ pc' = [pc EXCEPT ![w] = "done"]
    /\ UNCHANGED << runState, cur, wi, cancelled, closed, offering, hist,
                    driverClosed >>
    /\ UNCHANGED dvars

\* select: case target, ok := <-run.Targets with ok; then checkUrl, and on
\* success the call of run.Driver.Witness.  Go's select picks among the
\* ready cases at random, so this is enabled whatever run.ctx is.
WorkerReceive(w, target) ==
    /\ pc[w] = "select"
    /\ offering
    /\ offering' = FALSE
    /\ LET rec  == nrecv < MaxTargets
           slot == IF rec THEN nrecv + 1 ELSE 0
           bad  == checkUrl(target)
       IN /\ nrecv' = IF rec THEN nrecv + 1 ELSE nrecv
          /\ absOK' = IF rec THEN [absOK EXCEPT ![slot] = AbsoluteAllowed(target)]
                      ELSE absOK
          /\ IF bad
             THEN /\ pc' = pc
                  /\ cur' = cur
                  /\ outcome' = IF rec THEN [outcome EXCEPT ![slot] = "rejected"]
                                ELSE outcome
                  /\ witnessed' = witnessed
             ELSE /\ pc' = [pc EXCEPT ![w] = "witness"]
                  /\ cur' = [cur EXCEPT ![w] = slot]
                  /\ outcome' = IF rec THEN [outcome EXCEPT ![slot] = "inflight"]
                                ELSE outcome
                  /\ witnessed' = IF rec THEN [witnessed EXCEPT ![slot] = @ + 1]
                                  ELSE witnessed
    /\ UNCHANGED << runState, wi, cancelled, closed,
                    wcalls, bnfSeen, driverClosed >>
    /\ UNCHANGED dvars

\* run.Driver.Witness returns ret to worker w.
WitnessReturn(w, ret) ==
    /\ pc[w] = "witness"
    /\ LET br == AfterWitness(ret)
           label == IF ret.kind = "result"
                    THEN (IF ret.ResponseCode = 0 THEN "rc0" ELSE "ok")
                    ELSE ret.kind
       IN /\ outcome' = IF cur[w] # 0 THEN [outcome EXCEPT ![cur[w]] = label]
                        ELSE outcome
          /\ bnfSeen' = (bnfSeen \/ ret.kind = "ChromeNotFound")
          /\ cancelled' = (cancelled \/ br = "cancel")
          /\ IF br = "cancel"
             THEN /\ pc' = [pc EXCEPT ![w] = "done"]
                  /\ cur' = [cur EXCEPT ![w] = 0]
                  /\ wi' = wi
             ELSE IF br = "write" /\ NumWriters > 0
             THEN /\ pc' = [pc EXCEPT ![w] = "write"]
                  /\ cur' = cur
                  /\ wi' = [wi EXCEPT ![w] = 1]
             ELSE /\ pc' = [pc EXCEPT ![w] = "select"]
                  /\ cur' = [cur EXCEPT ![w] = 0]
                  /\ wi' = wi
    /\ UNCHANGED << runState, closed, offering, nrecv, absOK,
                    witnessed, wcalls, driverClosed >>
    /\ UNCHANGED dvars

\* runWriters: writer wi[w] is called and returns (failed: with an error).
WriterWrite(w, failed) ==
    /\ pc[w] = "write"
    /\ LET j == wi[w]
           n == NextWriter(j, failed)
       IN /\ wcalls' = IF cur[w] # 0 THEN [wcalls EXCEPT ![cur[w]] = Append(@, j)]
                       ELSE wcalls
          /\ IF n = 0
             THEN /\ pc' = [pc EXCEPT ![w] = "select"]
                  /\ cur' = [cur EXCEPT ![w] = 0]
                  /\ wi' = [wi EXCEPT ![w] = 0]
             ELSE /\ pc' = pc
                  /\ cur' = cur
                  /\ wi' = [wi EXCEPT ![w] = n]
    /\ UNCHANGED << runState, cancelled, closed, offering, nrecv, absOK,
                    outcome, witnessed, bnfSeen, driverClosed >>
    /\ UNCHANGED dvars

\* A Run that returns on cancellation without waiting for its workers.
RunReturnNoWait ==
    /\ runState = "running"
    /\ cancelled \/ \A w \in Workers : pc[w] = "done"
    /\ runState' = "returned"
    /\ UNCHANGED << pc, cur, wi, cancelled, closed, offering, hist,
                    driverClosed >>
    /\ UNCHANGED dvars

\* wg.Wait() returns: every worker ran its deferred wg.Done().
RunReturn ==
    /\ runState = "running"
    /\ \A w \in Workers : pc[w] = "done"
    /\ runState' = "returned"
    /\ UNCHANGED << pc, cur, wi, cancelled, closed, offering, hist,
                    driverClosed >>
    /\ UNCHANGED dvars

\* Runner.Close, which the caller calls when it is done with the runner:
\* run.Driver.Close().
RunnerClose ==
    /\ runState = "returned"
    /\ ~driverClosed
    /\ driverClosed' = TRUE
    /\ UNCHANGED << runState, pc, cur, wi, cancelled, closed, offering, hist >>
    /\ UNCHANGED dvars

Next ==
    \/ ProducerOffer
    \/ ProducerClose
    \/ RunStart
    \/ \E w \in Workers : WorkerCancelled(w)
    \/ \E w \in Workers : WorkerClosed(w)
    \/ \E w \in Workers : \E t \in TargetSet : WorkerReceive(w, t)
    \/ \E w \in Workers : \E ret \in WitnessReturns : WitnessReturn(w, ret)
    \/ \E w \in Workers : \E failed \in BOOLEAN : WriterWrite(w, failed)
    \/ RunReturn
    \/ RunnerClose

(***************************************************************************)
(* Driver back-ends: Witness calls of one driver, one after the other.     *)
(***************************************************************************)
\* Distinct RequestIDs the browser uses during one probe.
MaxRequests == 2
\* DevTools network events the browser emits during one probe.
MaxEvents == 3
\* User-data directories of Witness calls that fit on the disk.
MaxDirs == 2
\* Body-fetch goroutines of one call that are followed; the goroutines
\* started beyond them are not.
MaxFetches == 1
\* DevTools network events of one probe where no bodies are fetched
\* (EventSpec).
MaxLongEvents == 4

RequestIDs == 1..MaxRequests
Statuses   == {200, 404}
\* Request and response URLs; "b" stands for an https URL, whose response
\* carries SecurityDetails.
URLs       == {"a", "b"}

\* The options a driver is built with.  JavaScript: Scan.JavaScript != "".
\* Headers: Chrome.Headers, no extra headers here.  Chrome.WSS is empty
\* and Scan.SkipHTML is false.
AllOptions ==
    [ driver             : {"chromedp", "gorod"},
      JavaScript         : BOOLEAN,
      SaveContent        : BOOLEAN,
      LogScanErrors      : BOOLEAN,
      ScreenshotToWriter : BOOLEAN,
      ScreenshotSkipSave : BOOLEAN,
      Headers            : {<<>>} ]

\* Logging.LogScanErrors changes what is logged, and what a body-fetch
\* goroutine does on an error: it is varied where there are body fetches.
\* The screenshot options change the steps after the capture only: they
\* are varied without user JavaScript and body fetches.
OptionSets ==
    { o \in AllOptions :
        /\ o.LogScanErrors => o.SaveContent
        /\ (o.ScreenshotToWriter \/ o.ScreenshotSkipSave)
              => (~o.JavaScript /\ ~o.SaveContent) }

(***************************************************************************)
(* Chrome.Headers: the extra headers, one "Name: value" line each.  Lines  *)
(* are strings, sequences of one-character strings.                        *)
(***************************************************************************)
\* Lines of Chrome.Headers in one configuration.
MaxLines == 2

HeaderLines ==
    { <<"K", ":", " ", "V">>,
      <<"K", ":", "V">>,
      <<" ", "K", " ", ":", " ", "V", " ">>,
      <<"K", ":", " ", "W">>,
      <<"L", ":", " ", "V">>,
      <<"K", ":", " ", "V", ":", "W">>,
      <<"K", ":", ":">>,
      <<":">>,
      <<"b", "a", "d">>,
      <<>> }

HeaderLists == UNION { [1..n -> HeaderLines] : n \in 0..MaxLines }

\* The options with extra headers configured.
HeaderOptionSets ==
    { [o EXCEPT !.Headers = h] :
        o \in { x \in OptionSets :
                    /\ ~x.JavaScript /\ ~x.SaveContent
                    /\ ~x.ScreenshotToWriter /\ ~x.ScreenshotSkipSave },
        h \in HeaderLists }

\* strings.Index(s, sep) for a one-character sep, counted from 1; 0 when
\* sep is not in s.
Index(s, sep) ==
    IF \E i \in 1..Len(s) : s[i] = sep
    THEN CHOOSE i \in 1..Len(s) :
            s[i] = sep /\ \A j \in 1..(i - 1) : s[j] # sep
    ELSE 0

\* strings.SplitN(s, sep, n): at most n parts, the last one the unsplit
\* rest; all the parts when n < 0.
RECURSIVE SplitN(_, _, _)
SplitN(s, sep, n) ==
    IF n = 1 \/ Index(s, sep) = 0
    THEN << s >>
    ELSE << SubSeq(s, 1, Index(s, sep) - 1) >>
            \o SplitN(SubSeq(s, Index(s, sep) + 1, Len(s)), sep, n - 1)

\* strings.TrimSpace
RECURSIVE TrimSpace(_)
TrimSpace(s) ==
    IF s = <<>> THEN s
    ELSE IF s[1] = " " THEN TrimSpace(Tail(s))
    ELSE IF s[Len(s)] = " " THEN TrimSpace(SubSeq(s, 1, Len(s) - 1))
    ELSE s

\* A parse that splits the line at every ':'.
ParseHeaderSplitAll(header) ==
    LET kv == SplitN(header, ":", -1) IN
    IF Len(kv) # 2
    THEN [ok |-> FALSE, Key |-> <<>>, Value |-> <<>>]
    ELSE [ok |-> TRUE, Key |-> TrimSpace(kv[1]), Value |-> TrimSpace(kv[2])]

\* The body of the loop over Chrome.Headers: kv := strings.SplitN(header,
\* ":", 2); ok is false when len(kv) != 2 (warning, continue).
ParseHeader(header) ==
    LET kv == SplitN(header, ":", 2) IN
    IF Len(kv) # 2
    THEN [ok |-> FALSE, Key |-> <<>>, Value |-> <<>>]
    ELSE [ok |-> TRUE, Key |-> TrimSpace(kv[1]), Value |-> TrimSpace(kv[2])]

\* Chromedp: headers[k] = v on a network.Headers map; the map is kept as
\* the sequence of its pairs, a key that is set again keeps its place.
\* Gorod: headers = append(headers, k, v).
SetHeader(driver, headers, k, v) ==
    IF driver = "chromedp" /\ \E i \in 1..Len(headers) : headers[i].Key = k
    THEN [i \in 1..Len(headers) |->
            IF headers[i].Key = k THEN [Key |-> k, Value |-> v]
            ELSE headers[i]]
    ELSE Append(headers, [Key |-> k, Value |-> v])

\* The loop over Chrome.Headers from line i on: the headers built, the
\* lines accepted and the lines warned about.
RECURSIVE ParseHeaders(_, _, _, _)
ParseHeaders(driver, lines, i, acc) ==
    IF i > Len(lines) THEN acc
    ELSE LET p == ParseHeader(lines[i]) IN
         ParseHeaders(driver, lines, i + 1,
            IF p.ok
            THEN [acc EXCEPT !.headers = SetHeader(driver, @, p.Key, p.Value),
                             !.accepted = Append(@, i)]
            ELSE [acc EXCEPT !.warned = Append(@, i)])

\* network.EventRequestWillBeSent, EventResponseReceived, EventLoadingFailed
\* (proto.NetworkRequestWillBeSent, ... for Gorod).
Events ==
    [ type : {"requestWillBeSent"}, id : RequestIDs, url : URLs,
      status : {0}, err : {""} ]
    \cup [ type : {"responseReceived"}, id : RequestIDs, url : URLs,
           status : Statuses, err : {""} ]
    \cup [ type : {"loadingFailed"}, id : RequestIDs, url : {""},
           status : {0}, err : {"net::ERR"} ]

\* The headers of a response, as models.Header records.
ResponseHeaders(e) == << [Key |-> "Server", Value |-> e.url] >>

\* e.Response.SecurityDetails != nil
HasSecurityDetails(e) == e.url = "b"

NoEntry ==
    [known |-> FALSE, req |-> 0, URL |-> "", StatusCode |-> 0, Error |-> "",
     Content |-> ""]

\* &models.Result{URL: target, ProbedAt: time.Now()}
NewResult ==
    [ URL |-> "target", FinalURL |-> "", ResponseCode |-> 0,
      Headers |-> <<>>, TLS |-> FALSE, Failed |-> FALSE, FailedReason |-> "",
      Network |-> <<>>, Cookies |-> FALSE, Title |-> FALSE, HTML |-> FALSE,
      Technologies |-> FALSE, Screenshot |-> FALSE, Filename |-> FALSE,
      PerceptionHash |-> FALSE ]

\* first != nil && first.RequestID == e.RequestID
IsFirst(fst, e) == fst # 0 /\ fst = e.id

\* EventRequestWillBeSent: the new value of first.
FirstAfterRequest(fst, e) == IF fst = 0 THEN e.id ELSE fst

\* EventRequestWillBeSent: the new netlog.
NetlogAfterRequest(nl, e) ==
    [nl EXCEPT ![e.id] = [known |-> TRUE, req |-> e.id, URL |-> e.url,
                          StatusCode |-> 0, Error |-> "", Content |-> ""]]

\* A handler that stores the updated entry back into the map.
NetlogStoresResponse(nl, e) ==
    IF nl[e.id].known
    THEN [nl EXCEPT ![e.id].StatusCode = e.status, ![e.id].URL = e.url]
    ELSE nl

\* EventResponseReceived: the new netlog.  entry, ok := netlog[id] copies the
\* map value and the handler never stores the copy back.
NetlogAfterResponse(nl, e) == nl

\* The top-level fields with the response code only.
PopulateCodeOnly(res, e) == [res EXCEPT !.ResponseCode = e.status]

\* EventResponseReceived, the branch of the first request: the top-level
\* fields of the Result.
PopulateTopLevel(res, e) ==
    [res EXCEPT !.FinalURL = e.url,
                !.ResponseCode = e.status,
                !.Headers = @ \o ResponseHeaders(e),
                !.TLS = IF HasSecurityDetails(e) THEN TRUE ELSE @]

\* A handler of responseReceived that puts the entry in front.
OnResponseReceivedPrepends(res, nl, fst, e) ==
    IF ~nl[e.id].known THEN res
    ELSE LET top   == IF IsFirst(fst, e) THEN PopulateTopLevel(res, e) ELSE res
             entry == [nl[e.id] EXCEPT !.StatusCode = e.status, !.URL = e.url]
         IN [top EXCEPT !.Network = << entry >> \o @]

\* EventResponseReceived: the Result after the handler ran.  entry is a copy
\* of the map value, so netlog itself is left as it was.
OnResponseReceived(res, nl, fst, e) ==
    IF ~nl[e.id].known THEN res
    ELSE LET top   == IF IsFirst(fst, e) THEN PopulateTopLevel(res, e) ELSE res
             entry == [nl[e.id] EXCEPT !.StatusCode = e.status, !.URL = e.url]
         IN [top EXCEPT !.Network = Append(@, entry)]

\* A handler of loadingFailed that marks nothing on the first request.
OnLoadingFailedSilent(res, nl, fst, e) ==
    IF ~nl[e.id].known \/ IsFirst(fst, e) THEN res
    ELSE [res EXCEPT !.Network = Append(@, [nl[e.id] EXCEPT !.Error = e.err])]

\* A handler of loadingFailed that appends an entry for the first request
\* as well.
OnLoadingFailedAppendsFirst(res, nl, fst, e) ==
    IF ~nl[e.id].known THEN res
    ELSE LET top == IF IsFirst(fst, e)
                    THEN [res EXCEPT !.Failed = TRUE, !.FailedReason = e.err]
                    ELSE res
         IN [top EXCEPT !.Network = Append(@, [nl[e.id] EXCEPT !.Error = e.err])]

\* EventLoadingFailed: the Result after the handler ran.
OnLoadingFailed(res, nl, fst, e) ==
    IF ~nl[e.id].known THEN res
    ELSE IF IsFirst(fst, e)
         THEN [res EXCEPT !.Failed = TRUE, !.FailedReason = e.err]
         ELSE [res EXCEPT !.Network = Append(@, [nl[e.id] EXCEPT !.Error = e.err])]

\* A capture that is always embedded in the Result.
OnScreenshotAlwaysEmbedded(res, o) == [res EXCEPT !.Screenshot = TRUE]

\* The screenshot was captured: if Scan.ScreenshotToWriter, the image is
\* put into the Result, base64-encoded.
OnScreenshotCaptured(res, o) ==
    [res EXCEPT !.Screenshot = o.ScreenshotToWriter]

\* A capture failure that goes unrecorded.
OnScreenshotFailedSilent(res) == res

\* The screenshot could not be captured: if err != nil { ... }.
OnScreenshotFailed(res) ==
    [res EXCEPT !.Failed = TRUE, !.FailedReason = "screenshot"]

\* The ways in which the browser process fails to start.
StartFailures == {"notfound", "nofile"}

\* A tail of Witness that returns the Result when the image does not
\* decode or hash.
AfterCaptureLenient(saved, decoded, hashed) ==
    IF ~saved
    THEN [kind |-> "error", err |-> "could not write screenshot to disk"]
    ELSE [kind |-> "result", err |-> ""]

\* What Witness returns after a successful capture: the file was written
\* (saved), the image decoded, the hash computed.
AfterCapture(saved, decoded, hashed) ==
    IF ~saved
    THEN [kind |-> "error", err |-> "could not write screenshot to disk"]
    ELSE IF ~decoded
    THEN [kind |-> "error", err |-> "failed to decode screenshot image"]
    ELSE IF ~hashed
    THEN [kind |-> "error",
          err |-> "failed to calculate image perception hash"]
    ELSE [kind |-> "result", err |-> ""]

\* Navigate errors that are logged and never returned.
NavigateTolerated(driver, out) == FALSE

\* Whether Witness returns the error of Navigate (out: "ok", "deadline" for
\* context.DeadlineExceeded, "error" for any other error).
NavigateFails(driver, out) ==
    IF driver = "chromedp" THEN out \notin {"ok", "deadline"} ELSE out # "ok"

\* Whether Witness returns the error of the evaluation of Scan.JavaScript.
EvaluateFails(driver, ok) ==
    IF driver = "chromedp" THEN ~ok ELSE FALSE

\* A Close that leaves the user-data directory behind.
CloseKeepsUserData(dirs, d) == dirs

\* browserInstance.Close: the directories on disk after os.RemoveAll of the
\* user-data directory d.
browserInstanceClose(dirs, d) == dirs \ {d}

(***************************************************************************)
(* State of the driver between and during Witness calls.                   *)
(***************************************************************************)
\* state only the event handlers write
evars == << first, netlog, nev, populated, popBy, lfFirst, termOrder >>
\* history of the sequencing steps
svars == << navErr, jsFailed, shotTried, shotFailed >>
\* the allocation of the per-target browser
avars == << allocCtx, userData, tmpDirs >>

hvars == << populated, popBy, navErr, jsFailed, shotTried >>
\* the extra headers of the call
hdvars == << extraHeaders, accepted, warned >>

\* What a Witness call starts from.
CallStart ==
    /\ wret = [kind |-> "none", err |-> ""]
    /\ expired = FALSE
    /\ spawned = FALSE
    /\ listening = FALSE
    /\ dismissEvents = FALSE
    /\ first = 0
    /\ netlog = [r \in RequestIDs |-> NoEntry]
    /\ result = NewResult
    /\ nev = 0
    /\ allocCtx = "none"
    /\ userData = 0
    /\ fetches = {}
    /\ populated = 0
    /\ popBy = {}
    /\ navErr = "none"
    /\ jsFailed = FALSE
    /\ shotTried = FALSE
    /\ lfFirst = FALSE
    /\ shotFailed = FALSE
    /\ termOrder = <<>>
    /\ unguarded = FALSE
    /\ lateWrites = FALSE
    /\ extraHeaders = <<>>
    /\ accepted = <<>>
    /\ warned = <<>>

DriverIdle ==
    /\ opts = [driver |-> "chromedp", JavaScript |-> FALSE,
               SaveContent |-> FALSE, LogScanErrors |-> FALSE,
               ScreenshotToWriter |-> FALSE, ScreenshotSkipSave |-> FALSE,
               Headers |-> <<>>]
    /\ wpc = "idle"
    /\ tmpDirs = {}
    /\ evBudget = 0
    /\ CallStart

Init == RunnerInit /\ DriverIdle

\* Witness is entered with some options.
WitnessInit ==
    /\ RunnerInit
    /\ opts \in OptionSets
    /\ wpc = "entry"
    /\ tmpDirs = {}
    /\ evBudget = MaxEvents
    /\ CallStart

\* The event handler is registered and its context is live.
ListenerActive == listening /\ ~expired

\* return nil, err / return result, nil, with the deferred calls: the
\* contexts are cancelled and allocator.Close() runs (Chromedp), the page is
\* closed (Gorod).
Return(kind, err) ==
    /\ wpc' = "returned"
    /\ wret' = [kind |-> kind, err |-> err]
    /\ listening' = FALSE
    /\ IF allocCtx = "live"
       THEN /\ allocCtx' = "done"
            /\ tmpDirs' = browserInstanceClose(tmpDirs, userData)
            /\ userData' = userData
       ELSE UNCHANGED avars

\* Witness goes on to its next step.
Goto(step) ==
    /\ wpc' = step
    /\ UNCHANGED << wret, listening, avars >>

\* A DevTools call on the per-target context succeeds only before the
\* deadline.
CanSucceed(ok) == expired => ~ok

\* A sequencing step reads or writes fields of the Result, never under
\* resultMutex: it is noted when the handler or a body fetch can run at the
\* same time.
Unguarded == unguarded \/ ListenerActive \/ fetches # {}

\* The per-target timeout (Scan.Timeout) runs out.
DeadlineExpires ==
    /\ wpc \in {"listen", "navigate", "navigating", "js", "cookies", "title",
                "html", "fingerprint", "screenshot"}
    /\ ~expired
    /\ expired' = TRUE
    /\ UNCHANGED << opts, evBudget, wpc, wret, spawned, listening, dismissEvents,
                    result, fetches, unguarded, lateWrites >>
    /\ UNCHANGED << evars, svars, avars >>
    /\ UNCHANGED << rvars, hdvars >>

\* Chromedp: getChromedpAllocator (os.MkdirTemp of the user-data directory,
\* the allocation context), defer allocator.Close(), and the browser, tab
\* and navigation contexts.  Gorod: browser.Page.
W_Allocate(ok) ==
    /\ wpc = "entry"
    /\ IF ~ok
       THEN Return("error", "allocate")
       ELSE /\ wpc' = "setup"
            /\ UNCHANGED << wret, listening >>
            /\ IF opts.driver = "chromedp"
               THEN LET dir == CHOOSE d \in 1..MaxDirs : d \notin tmpDirs
                    IN /\ allocCtx' = "live"
                       /\ userData' = dir
                       /\ tmpDirs' = tmpDirs \cup {dir}
               ELSE UNCHANGED avars
    /\ UNCHANGED << opts, evBudget, expired, spawned, dismissEvents, result,
                    fetches, unguarded, lateWrites >>
    /\ UNCHANGED << evars, svars >>
    /\ UNCHANGED << rvars, hdvars >>

\* Chromedp: chromedp.Run(navigationCtx, network.Enable()), the first time
\* Chrome is run: the allocator starts the browser process.  Gorod:
\* SetViewport and SetUserAgent on a browser NewGorod already launched.
\* The process cannot be started: "notfound", the name is not on the PATH
\* (an *exec.Error with exec.ErrNotFound); "nofile", the configured
\* Chrome.Path does not exist (an *fs.PathError of fork/exec).
W_Setup(out) ==
    /\ wpc = "setup"
    /\ out \in StartFailures => opts.driver = "chromedp"
    /\ CASE out = "ok"       -> Goto("headers")
         [] out = "notfound" -> Return("ChromeNotFound", "exec: not found")
         [] out = "nofile"   -> Return("error", "fork/exec: no such file")
         [] OTHER            -> Return("error", "setup")
    /\ UNCHANGED << opts, evBudget, expired, spawned, dismissEvents, result,
                    fetches, unguarded, lateWrites >>
    /\ UNCHANGED << evars, svars >>
    /\ UNCHANGED << rvars, hdvars >>

\* if len(Chrome.Headers) > 0: the lines are parsed and the headers are
\* handed to the browser (network.SetExtraHTTPHeaders / SetExtraHeaders).
W_Headers(ok) ==
    /\ wpc = "headers"
    /\ opts.Headers = <<>> => ok
    /\ IF opts.Headers = <<>>
       THEN UNCHANGED hdvars
       ELSE LET r == ParseHeaders(opts.driver, opts.Headers, 1,
                        [headers |-> <<>>, accepted |-> <<>>, warned |-> <<>>])
            IN /\ extraHeaders' = r.headers
               /\ accepted' = r.accepted
               /\ warned' = r.warned
    /\ IF ok
       THEN Goto("listen")
       ELSE Return("error", "could not set extra http headers")
    /\ UNCHANGED << opts, evBudget, expired, spawned, dismissEvents, result,
                    fetches, unguarded, lateWrites >>
    /\ UNCHANGED << evars, svars >>
    /\ UNCHANGED rvars

\* Chromedp: go chromedp.ListenTarget(...): the handler is registered by the
\* new goroutine.  Gorod: page.EachEvent(...) subscribes in the calling
\* goroutine and only the wait function it returns runs in the new one.
W_Listen ==
    /\ wpc = "listen"
    /\ wpc' = "navigate"
    /\ IF opts.driver = "chromedp"
       THEN spawned' = TRUE /\ listening' = listening
       ELSE spawned' = spawned /\ listening' = TRUE
    /\ UNCHANGED << opts, evBudget, wret, expired, dismissEvents, result,
                    fetches, unguarded, lateWrites >>
    /\ UNCHANGED << evars, svars, avars >>
    /\ UNCHANGED << rvars, hdvars >>

\* Chromedp: the goroutine of ListenTarget registers the handler.
ListenerRegistered ==
    /\ spawned /\ ~listening
    /\ wpc # "returned"
    /\ listening' = TRUE
    /\ UNCHANGED << opts, evBudget, wpc, wret, expired, spawned, dismissEvents,
                    result, fetches, unguarded, lateWrites >>
    /\ UNCHANGED << evars, svars, avars >>
    /\ UNCHANGED << rvars, hdvars >>

\* The browser emits a network event; the handler runs when it is registered
\* and its context is live, else the event is seen by nobody.
DevToolsEvent(e) ==
    /\ wpc \in {"navigating", "js", "cookies", "title", "html", "fingerprint",
                "screenshot"}
    /\ nev < evBudget
    /\ nev' = nev + 1
    /\ IF ListenerActive
       THEN /\ first' = IF e.type = "requestWillBeSent"
                        THEN FirstAfterRequest(first, e) ELSE first
            /\ netlog' = CASE e.type = "requestWillBeSent" ->
                                NetlogAfterRequest(netlog, e)
                           [] e.type = "responseReceived" ->
                                NetlogAfterResponse(netlog, e)
                           [] OTHER -> netlog
            /\ result' = CASE e.type = "responseReceived" ->
                                OnResponseReceived(result, netlog, first, e)
                           [] e.type = "loadingFailed" ->
                                OnLoadingFailed(result, netlog, first, e)
                           [] OTHER -> result
            /\ LET wrote == /\ e.type = "responseReceived"
                            /\ netlog[e.id].known
                            /\ IsFirst(first, e)
               IN /\ populated' = IF wrote THEN populated + 1 ELSE populated
                  /\ popBy' = IF wrote THEN popBy \cup {e.id} ELSE popBy
            /\ lfFirst' = (lfFirst \/ (/\ e.type = "loadingFailed"
                                       /\ netlog[e.id].known
                                       /\ IsFirst(first, e)))
            /\ termOrder' =
                 IF /\ e.type \in {"responseReceived", "loadingFailed"}
                    /\ netlog[e.id].known
                    /\ \A k \in 1..Len(termOrder) : termOrder[k] # e.id
                 THEN Append(termOrder, e.id)
                 ELSE termOrder
            \* if run.options.Scan.SaveContent { go func(index int) {...} }
            /\ fetches' =
                 IF /\ e.type = "responseReceived"
                    /\ netlog[e.id].known
                    /\ opts.SaveContent
                    /\ Cardinality(fetches) < MaxFetches
                 THEN fetches \cup {[index |-> Len(result.Network) + 1,
                                     stage |-> "call", req |-> e.id,
                                     status |-> e.status, url |-> e.url]}
                 ELSE fetches
            \* Gorod: the callback returns dismissEvents, true stops EachEvent
            /\ listening' = IF opts.driver = "gorod" THEN ~dismissEvents
                            ELSE listening
       ELSE UNCHANGED << first, netlog, result, populated, popBy, lfFirst,
                         termOrder, fetches, listening >>
    /\ UNCHANGED << opts, evBudget, wpc, wret, expired, spawned, dismissEvents,
                    unguarded, lateWrites >>
    /\ UNCHANGED << svars, avars >>
    /\ UNCHANGED << rvars, hdvars >>

\* A body-fetch goroutine: network.GetResponseBody returns.  The call fails
\* once its context is done; on an error the goroutine returns only when
\* Logging.LogScanErrors is set, else it goes on to the write with no body.
BodyFetchCall(t, ok) ==
    /\ t \in fetches
    /\ t.stage = "call"
    /\ (expired \/ wpc = "returned") => ~ok
    /\ fetches' =
         IF ok THEN (fetches \ {t}) \cup {[t EXCEPT !.stage = "body"]}
         ELSE IF opts.LogScanErrors THEN fetches \ {t}
         ELSE (fetches \ {t}) \cup {[t EXCEPT !.stage = "nil"]}
    /\ UNCHANGED << opts, evBudget, wpc, wret, expired, spawned, listening,
                    dismissEvents, result, unguarded, lateWrites >>
    /\ UNCHANGED << evars, svars, avars >>
    /\ UNCHANGED << rvars, hdvars >>

\* A body-fetch goroutine: result.Network[index].Content = body, under
\* resultMutex, whether or not Witness has returned.
BodyFetchWrite(t) ==
    /\ t \in fetches
    /\ t.stage \in {"body", "nil"}
    /\ fetches' = fetches \ {t}
    /\ result' = [result EXCEPT !.Network[t.index].Content =
                                    IF t.stage = "body" THEN "body" ELSE ""]
    /\ lateWrites' = (lateWrites \/ (wpc = "returned" /\ wret.kind = "result"))
    /\ UNCHANGED << opts, evBudget, wpc, wret, expired, spawned, listening,
                    dismissEvents, unguarded >>
    /\ UNCHANGED << evars, svars, avars >>
    /\ UNCHANGED << rvars, hdvars >>

\* chromedp.Run(navigationCtx, chromedp.Navigate(target)) / page.Navigate
\* is called.
W_NavigateCall ==
    /\ wpc = "navigate"
    /\ wpc' = "navigating"
    /\ UNCHANGED << opts, evBudget, wret, expired, spawned, listening,
                    dismissEvents, result, fetches, unguarded, lateWrites >>
    /\ UNCHANGED << evars, svars, avars >>
    /\ UNCHANGED << rvars, hdvars >>

\* Navigate returns.
W_NavigateReturn(out) ==
    /\ wpc = "navigating"
    /\ expired => out = "deadline"
    /\ expired' = (expired \/ out = "deadline")
    /\ navErr' = out
    /\ IF NavigateFails(opts.driver, out)
       THEN Return("error", "could not navigate to target")
       ELSE Goto("js")
    /\ UNCHANGED << opts, evBudget, spawned, dismissEvents, result, fetches,
                    unguarded, lateWrites, jsFailed, shotTried, shotFailed >>
    /\ UNCHANGED evars
    /\ UNCHANGED << rvars, hdvars >>

\* The user JavaScript, if any, is evaluated.
W_Evaluate(ok) ==
    /\ wpc = "js"
    /\ CanSucceed(ok)
    /\ ~opts.JavaScript => ok
    /\ jsFailed' = ~ok
    /\ IF opts.JavaScript /\ EvaluateFails(opts.driver, ok)
       THEN Return("error", "failed to evaluate user-provided javascript")
       ELSE Goto("cookies")
    /\ UNCHANGED << opts, evBudget, expired, spawned, dismissEvents, result,
                    fetches, unguarded, lateWrites, navErr, shotTried,
                    shotFailed >>
    /\ UNCHANGED evars
    /\ UNCHANGED << rvars, hdvars >>

\* storage.GetCookies / page.Cookies: log-only on failure.
W_Cookies(ok) ==
    /\ wpc = "cookies"
    /\ CanSucceed(ok)
    /\ wpc' = "title"
    /\ result' = [result EXCEPT !.Cookies = ok]
    /\ unguarded' = IF ok THEN Unguarded ELSE unguarded
    /\ UNCHANGED << opts, evBudget, wret, expired, spawned, listening,
                    dismissEvents, fetches, lateWrites >>
    /\ UNCHANGED << evars, svars, avars >>
    /\ UNCHANGED << rvars, hdvars >>

\* chromedp.Title / page.Info: log-only on failure.
W_Title(ok) ==
    /\ wpc = "title"
    /\ CanSucceed(ok)
    /\ wpc' = "html"
    /\ result' = [result EXCEPT !.Title = ok]
    /\ unguarded' = IF ok THEN Unguarded ELSE unguarded
    /\ UNCHANGED << opts, evBudget, wret, expired, spawned, listening,
                    dismissEvents, fetches, lateWrites >>
    /\ UNCHANGED << evars, svars, avars >>
    /\ UNCHANGED << rvars, hdvars >>

\* chromedp.OuterHTML / page.HTML: log-only on failure.  Gorod then sets
\* dismissEvents = true.
W_HTML(ok) ==
    /\ wpc = "html"
    /\ CanSucceed(ok)
    /\ wpc' = "fingerprint"
    /\ result' = [result EXCEPT !.HTML = ok]
    /\ unguarded' = IF ok THEN Unguarded ELSE unguarded
    /\ dismissEvents' = (opts.driver = "gorod")
    /\ UNCHANGED << opts, evBudget, wret, expired, spawned, listening, fetches,
                    lateWrites >>
    /\ UNCHANGED << evars, svars, avars >>
    /\ UNCHANGED << rvars, hdvars >>

\* Wappalyzer.Fingerprint(result.HeaderMap(), result.HTML): the engine finds
\* something only where there is something to look at.
W_Fingerprint ==
    /\ wpc = "fingerprint"
    /\ wpc' = "screenshot"
    /\ result' = [result EXCEPT !.Technologies = (result.Headers # <<>> \/ result.HTML)]
    /\ unguarded' = Unguarded
    /\ UNCHANGED << opts, evBudget, wret, expired, spawned, listening,
                    dismissEvents, fetches, lateWrites >>
    /\ UNCHANGED << evars, svars, avars >>
    /\ UNCHANGED << rvars, hdvars >>

\* The screenshot is captured; a failure is recorded on the Result, which
\* is returned.
W_Screenshot(ok) ==
    /\ wpc = "screenshot"
    /\ CanSucceed(ok)
    /\ shotTried' = TRUE
    /\ shotFailed' = ~ok
    /\ IF ok
       THEN /\ result' = OnScreenshotCaptured(result, opts)
            /\ unguarded' = IF opts.ScreenshotToWriter
                            THEN Unguarded ELSE unguarded
            /\ Goto("save")
       ELSE /\ result' = OnScreenshotFailed(result)
            /\ unguarded' = Unguarded
            /\ Return("result", "")
    /\ UNCHANGED << opts, evBudget, expired, spawned, dismissEvents, fetches,
                    lateWrites, navErr, jsFailed >>
    /\ UNCHANGED evars
    /\ UNCHANGED << rvars, hdvars >>

\* os.WriteFile of the screenshot unless Scan.ScreenshotSkipSave.
W_Save(ok) ==
    /\ wpc = "save"
    /\ opts.ScreenshotSkipSave => ok
    /\ result' = [result EXCEPT !.Filename = ~opts.ScreenshotSkipSave]
    /\ unguarded' = IF opts.ScreenshotSkipSave THEN unguarded
                    ELSE Unguarded
    /\ IF ok
       THEN Goto("decode")
       ELSE Return(AfterCapture(FALSE, FALSE, FALSE).kind,
                   AfterCapture(FALSE, FALSE, FALSE).err)
    /\ UNCHANGED << opts, evBudget, expired, spawned, dismissEvents, fetches,
                    lateWrites >>
    /\ UNCHANGED << evars, svars >>
    /\ UNCHANGED << rvars, hdvars >>

\* image.Decode and goimagehash.PerceptionHash, then return result, nil.
W_Hash(decoded, hashed) ==
    /\ wpc = "decode"
    /\ ~decoded => ~hashed
    /\ IF decoded /\ hashed
       THEN /\ result' = [result EXCEPT !.PerceptionHash = TRUE]
            /\ unguarded' = Unguarded
       ELSE UNCHANGED << result, unguarded >>
    /\ Return(AfterCapture(TRUE, decoded, hashed).kind,
              AfterCapture(TRUE, decoded, hashed).err)
    /\ UNCHANGED << opts, evBudget, expired, spawned, dismissEvents, fetches,
                    lateWrites >>
    /\ UNCHANGED << evars, svars >>
    /\ UNCHANGED << rvars, hdvars >>

\* The worker calls Witness for its next target: a new Result, netlog and
\* first, new contexts.  The goroutines of the call before go on with the
\* Result of that call, which is followed no further.
W_Enter ==
    /\ wpc = "returned"
    /\ Cardinality(tmpDirs) < MaxDirs
    /\ wpc' = "entry"
    /\ wret' = [kind |-> "none", err |-> ""]
    /\ expired' = FALSE
    /\ spawned' = FALSE
    /\ listening' = FALSE
    /\ dismissEvents' = FALSE
    /\ first' = 0
    /\ netlog' = [r \in RequestIDs |-> NoEntry]
    /\ result' = NewResult
    /\ nev' = 0
    /\ allocCtx' = "none"
    /\ userData' = 0
    /\ fetches' = {}
    /\ populated' = 0
    /\ popBy' = {}
    /\ navErr' = "none"
    /\ jsFailed' = FALSE
    /\ shotTried' = FALSE
    /\ lfFirst' = FALSE
    /\ shotFailed' = FALSE
    /\ termOrder' = <<>>
    /\ unguarded' = FALSE
    /\ lateWrites' = FALSE
    /\ extraHeaders' = <<>>
    /\ accepted' = <<>>
    /\ warned' = <<>>
    /\ UNCHANGED << opts, evBudget, tmpDirs >>
    /\ UNCHANGED rvars

WitnessNext ==
    \/ DeadlineExpires
    \/ \E ok \in BOOLEAN : W_Allocate(ok)
    \/ \E out \in {"ok", "fail"} \cup StartFailures : W_Setup(out)
    \/ \E ok \in BOOLEAN : W_Headers(ok)
    \/ W_Listen
    \/ ListenerRegistered
    \/ \E e \in Events : DevToolsEvent(e)
    \/ \E t \in fetches : \E ok \in BOOLEAN : BodyFetchCall(t, ok)
    \/ \E t \in fetches : BodyFetchWrite(t)
    \/ W_NavigateCall
    \/ \E out \in {"ok", "deadline", "error"} : W_NavigateReturn(out)
    \/ \E ok \in BOOLEAN : W_Evaluate(ok)
    \/ \E ok \in BOOLEAN : W_Cookies(ok)
    \/ \E ok \in BOOLEAN : W_Title(ok)
    \/ \E ok \in BOOLEAN : W_HTML(ok)
    \/ W_Fingerprint
    \/ \E ok \in BOOLEAN : W_Screenshot(ok)
    \/ \E ok \in BOOLEAN : W_Save(ok)
    \/ \E decoded, hashed \in BOOLEAN : W_Hash(decoded, hashed)
    \/ W_Enter

WitnessSpec == WitnessInit /\ [][WitnessNext]_vars

(***************************************************************************)
(* Witness calls with Scan.SaveContent off, where no body is fetched, and  *)
(* a browser that emits one event more.                                    *)
(***************************************************************************)
EventInit ==
    /\ RunnerInit
    /\ opts \in { o \in OptionSets :
                    /\ ~o.SaveContent /\ ~o.JavaScript
                    /\ ~o.ScreenshotToWriter /\ ~o.ScreenshotSkipSave }
    /\ wpc = "entry"
    /\ tmpDirs = {}
    /\ evBudget = MaxLongEvents
    /\ CallStart

EventNext ==
    \/ DeadlineExpires
    \/ \E ok \in BOOLEAN : W_Allocate(ok)
    \/ \E out \in {"ok", "fail"} \cup StartFailures : W_Setup(out)
    \/ \E ok \in BOOLEAN : W_Headers(ok)
    \/ W_Listen
    \/ ListenerRegistered
    \/ \E e \in Events : DevToolsEvent(e)
    \/ W_NavigateCall
    \/ \E out \in {"ok", "deadline", "error"} : W_NavigateReturn(out)
    \/ \E ok \in BOOLEAN : W_Evaluate(ok)
    \/ \E ok \in BOOLEAN : W_Cookies(ok)
    \/ \E ok \in BOOLEAN : W_Title(ok)
    \/ \E ok \in BOOLEAN : W_HTML(ok)
    \/ W_Fingerprint
    \/ \E ok \in BOOLEAN : W_Screenshot(ok)
    \/ \E ok \in BOOLEAN : W_Save(ok)
    \/ \E decoded, hashed \in BOOLEAN : W_Hash(decoded, hashed)
    \/ W_Enter

EventSpec == EventInit /\ [][EventNext]_vars

(***************************************************************************)
(* Witness calls with extra headers configured, up to the step that hands  *)
(* them to the browser.                                                    *)
(***************************************************************************)
HeaderInit ==
    /\ RunnerInit
    /\ opts \in HeaderOptionSets
    /\ wpc = "entry"
    /\ tmpDirs = {}
    /\ evBudget = MaxEvents
    /\ CallStart

HeaderNext ==
    \/ \E ok \in BOOLEAN : W_Allocate(ok)
    \/ \E out \in {"ok", "fail"} \cup StartFailures : W_Setup(out)
    \/ \E ok \in BOOLEAN : W_Headers(ok)
    \/ W_Enter

HeaderSpec == HeaderInit /\ [][HeaderNext]_vars


Spec == Init /\ [][Next]_vars

(***************************************************************************)
(* Run under the scheduling Go gives it: a select with several ready cases *)
(* picks one of them uniformly at random, so a case that is ready again    *)
(* and again is taken in the end (strong fairness of the ctx.Done case);   *)
(* a Witness or Write call in flight returns, and wg.Wait returns once the *)
(* workers are done.  Nothing is assumed of the producer.                  *)
(***************************************************************************)
Fairness ==
    /\ \A w \in Workers : SF_vars(WorkerCancelled(w))
    /\ \A w \in Workers : WF_vars(\E ret \in WitnessReturns : WitnessReturn(w, ret))
    /\ \A w \in Workers : WF_vars(\E failed \in BOOLEAN : WriterWrite(w, failed))
    /\ WF_vars(RunReturn)

LiveSpec == Init /\ [][Next]_vars /\ Fairness

(***************************************************************************)
(* The same, and a worker whose receive from the closed channel is ready   *)
(* takes it or the ctx.Done case.                                          *)
(***************************************************************************)
CloseFairness ==
    /\ Fairness
    /\ \A w \in Workers : WF_vars(WorkerClosed(w))

CloseSpec == Init /\ [][Next]_vars /\ CloseFairness

(***************************************************************************)
(* Properties of the orchestrator.                                         *)
(***************************************************************************)
AllWriters == [j \in 1..NumWriters |-> j]

IsPrefix(s, t) == Len(s) <= Len(t) /\ s = SubSeq(t, 1, Len(s))

\* The target of slot i has been handled to the end.
Finished(i) ==
    /\ outcome[i] \notin {"none", "inflight"}
    /\ \A w \in Workers : cur[w] # i

\* C1: writer fan-out under errors: for every target whose Witness returned
\* a Result with response_code != 0, every one of the N writers has received
\* its Write call once the target is handled, also when some Write returned
\* an error (so each writer receives exactly K calls for K such targets).
C1_FanOutUnderErrors ==
    \A i \in Slots :
        (outcome[i] = "ok" /\ Finished(i)) => wcalls[i] = AllWriters

\* C2: a Result with response_code == 0 is dropped: no writer is ever
\* invoked for its target, and the step in which Witness returns it leaves
\* the worker at its select point, ready for the next target, and leaves the
\* run-wide cancellation untouched.
C2_ZeroCodeDropped ==
    [][ /\ \A i \in Slots : outcome'[i] = "rc0" => wcalls'[i] = <<>>
        /\ \A w \in Workers :
             (pc[w] = "witness" /\ cur[w] # 0 /\ outcome'[cur[w]] = "rc0")
                => /\ pc'[w] = "select"
                   /\ cancelled' = cancelled
                   /\ wcalls' = wcalls ]_vars

C2_Witness ==
    \E i, j \in Slots :
        /\ i < j
        /\ outcome[i] = "rc0" /\ Finished(i)
        /\ outcome[j] = "ok" /\ wcalls[j] = AllWriters
        /\ ~cancelled

\* C3: a target that is not an absolute URI with a scheme of UriFilter is
\* rejected: Witness is never invoked for it and no writer is invoked for it.
C3_InvalidTargetNeverWitnessed ==
    \A i \in 1..nrecv :
        ~absOK[i] => /\ outcome[i] = "rejected"
                     /\ witnessed[i] = 0
                     /\ wcalls[i] = <<>>

C3_Witness ==
    \E i, j \in 1..nrecv :
        /\ i < j
        /\ ~absOK[i] /\ outcome[i] = "rejected"
        /\ absOK[j] /\ outcome[j] = "ok" /\ wcalls[j] = AllWriters

\* C4: once Witness has returned ChromeNotFoundError to a worker, Run
\* eventually returns (every worker has exited), whether or not the Targets
\* channel is ever closed and whatever the producer goes on offering.
C4_CancellationLiveness == bnfSeen ~> (runState = "returned")

C4_Witness ==
    /\ bnfSeen
    /\ runState = "returned"
    /\ ~closed
    /\ offering

\* C5: once the run-wide cancellation is signalled, no worker receives
\* another target from the Targets channel.
C5_NoReceiveAfterCancel ==
    [][ cancelled => ~(offering /\ ~offering') ]_vars

\* C6: for each target every writer is invoked at most once and in
\* Writer-slice order, and only for a Result with response_code != 0 that a
\* single Witness call returned without error.
C6_WritersOnceInOrder ==
    \A i \in Slots :
        /\ IsPrefix(wcalls[i], AllWriters)
        /\ wcalls[i] # <<>> => (outcome[i] = "ok" /\ witnessed[i] = 1)

C6_Witness ==
    \E i \in Slots : wcalls[i] = AllWriters /\ NumWriters >= 2 /\ Finished(i)

\* C7: an error of Witness other than ChromeNotFoundError is isolated: no
\* writer is ever invoked for that target, and the step in which Witness
\* returns it does not cancel the run and leaves the worker alive at its
\* select point, where it takes the targets delivered later.
C7_ErrorIsolated ==
    [][ /\ \A i \in Slots : outcome'[i] = "error" => wcalls'[i] = <<>>
        /\ \A w \in Workers :
             (pc[w] = "witness" /\ cur[w] # 0 /\ outcome'[cur[w]] = "error")
                => /\ pc'[w] = "select"
                   /\ cancelled' = cancelled
                   /\ wcalls' = wcalls ]_vars

C7_Witness ==
    \E i, j \in Slots :
        /\ i < j
        /\ outcome[i] = "error" /\ Finished(i)
        /\ outcome[j] = "ok" /\ wcalls[j] = AllWriters /\ Finished(j)
        /\ ~cancelled /\ ~bnfSeen

(***************************************************************************)
(* Properties of a Witness call.                                           *)
(***************************************************************************)
\* C8: within one Witness call, whatever events arrive, the top-level fields
\* of the Result are populated at most once, and only by a responseReceived
\* event of the first request; headers[] never receives the headers of the
\* first response more than once.
C8_TopLevelPopulatedOnce ==
    /\ populated <= 1
    /\ popBy \subseteq {first}
    /\ Len(result.Headers) <= 1

\* C9: when the configured user JavaScript fails to evaluate, Witness does
\* not return that failure: the later steps up to the screenshot are run.
C9_UserJsFailureTolerated ==
    (wpc = "returned" /\ opts.JavaScript /\ jsFailed)
        => /\ wret.err # "failed to evaluate user-provided javascript"
           /\ shotTried

C11_DeadlineTolerated ==
    (wpc = "returned" /\ navErr = "deadline") => wret.kind = "result"

C13_BackendsEquivalent ==
    /\ navErr # "none"
         => NavigateFails("chromedp", navErr) = NavigateFails("gorod", navErr)
    /\ (opts.JavaScript /\ jsFailed)
         => EvaluateFails("chromedp", FALSE) = EvaluateFails("gorod", FALSE)

\* C14: for every Result, failed is true iff a loadingFailed event was
\* handled for the first request or the screenshot capture failed;
\* failed_reason then is the reason of one of the causes that occurred, and
\* is empty otherwise; failed, once set, is never reset on that Result.
C14_FailedIff ==
    /\ [](/\ result.Failed <=> (lfFirst \/ shotFailed)
          /\ result.Failed =>
               \/ (lfFirst /\ result.FailedReason = "net::ERR")
               \/ (shotFailed /\ result.FailedReason = "screenshot")
          /\ ~result.Failed => result.FailedReason = "")
    /\ [][ (result.Failed /\ wpc # "returned") => result'.Failed ]_vars

C14_Witness ==
    /\ wpc = "returned"
    /\ wret.kind = "result"
    /\ lfFirst /\ ~shotFailed
    /\ result.Failed
    /\ result.FailedReason = "net::ERR"
    /\ result.PerceptionHash

\* C15: for every Result, url is the requested target, and final_url is set
\* iff a responseReceived event of the first request was handled, iff
\* response_code != 0.
C15_FinalUrlIff ==
    /\ result.URL = "target"
    /\ (result.FinalURL # "") <=> (populated > 0)
    /\ (populated > 0) <=> (result.ResponseCode # 0)

C15_Witness ==
    /\ wpc = "returned"
    /\ wret.kind = "result"
    /\ result.FinalURL = "b"
    /\ result.ResponseCode = 404
    /\ ~result.Failed

\* C16: when the screenshot capture fails, Witness returns the Result with a
\* nil error, with failed = true and failed_reason the capture error, and
\* with filename, screenshot and perception_hash empty (no disk write, no
\* hash); what was collected before is in the Result.
C16_ScreenshotFailure ==
    (wpc = "returned" /\ shotFailed)
        => /\ wret = [kind |-> "result", err |-> ""]
           /\ result.Failed
           /\ result.FailedReason = "screenshot"
           /\ ~result.Filename
           /\ ~result.Screenshot
           /\ ~result.PerceptionHash

C16_Witness ==
    /\ wpc = "returned"
    /\ shotFailed
    /\ wret.kind = "result"
    /\ result.ResponseCode = 200
    /\ result.Title /\ result.HTML /\ result.Cookies
    /\ Len(result.Network) = 1
    /\ ~expired

\* C17: termination on input close: when the owner has closed the Targets
\* channel and no ChromeNotFoundError occurs, every target received was
\* received once and handled (rejected by checkUrl, or passed to Witness
\* exactly once), every worker exits and Run returns; no step of the
\* orchestrator closes the channel.
C17_TerminationOnClose ==
    /\ []((closed /\ ~bnfSeen /\ runState = "returned")
            => /\ \A w \in Workers : pc[w] = "done"
               /\ \A i \in 1..nrecv :
                    /\ Finished(i)
                    /\ witnessed[i] = IF outcome[i] = "rejected" THEN 0 ELSE 1)
    /\ [][ (closed' # closed)
             => (~closed /\ pc' = pc /\ runState' = runState
                   /\ cancelled' = cancelled /\ driverClosed' = driverClosed) ]_vars
    /\ (closed /\ runState = "running")
          ~> (runState = "returned" \/ bnfSeen)

C17_Witness ==
    /\ closed /\ ~bnfSeen /\ ~cancelled
    /\ runState = "returned"
    /\ nrecv = MaxTargets
    /\ \E i, j \in Slots :
          /\ outcome[i] = "rejected"
          /\ outcome[j] = "ok" /\ wcalls[j] # <<>>

\* C18: with save_content, no body-fetch goroutine writes to the Result after
\* Witness has returned it.
C18_NoLateBodyWrite == ~lateWrites

\* C19: no sequencing step of Witness reads or writes fields of the Result
\* outside result_mutex while the event listener can still handle events or
\* a body-fetch goroutine is running.
C19_MutexDiscipline == ~unguarded

\* C20: for every Result, network[] holds exactly one entry for each
\* request_id whose requestWillBeSent and terminal event (responseReceived
\* or loadingFailed) were handled during the probe, none twice and none
\* missing, in the order in which those terminal events were handled.
C20_OneEntryPerRequest ==
    (wpc = "returned" /\ wret.kind = "result")
        => /\ \A r \in RequestIDs :
                (\E n \in 1..Len(termOrder) : termOrder[n] = r)
                  => Cardinality({k \in 1..Len(result.Network) :
                                     result.Network[k].req = r}) = 1
           /\ [k \in 1..Len(result.Network) |-> result.Network[k].req]
                = termOrder

\* C21: for every entry of network[] after any sequence of DevTools events:
\* a status_code other than 0 comes with a non-empty url, and a non-empty
\* error comes with status_code 0, also when loadingFailed follows
\* responseReceived for the same sub-request.
C21_EntryWellFormed ==
    \A k \in 1..Len(result.Network) :
        /\ result.Network[k].StatusCode # 0 => result.Network[k].URL # ""
        /\ result.Network[k].Error # "" => result.Network[k].StatusCode = 0

\* loadingFailed was handled after responseReceived for the same
\* sub-request: its entry with the status, then its entry with the error.
C21_Witness ==
    \E j, k \in 1..Len(result.Network) :
        /\ j < k
        /\ result.Network[j].req = result.Network[k].req
        /\ result.Network[j].req # first
        /\ result.Network[j].StatusCode = 404
        /\ result.Network[k].Error = "net::ERR"
        /\ result.Network[k].StatusCode = 0

(***************************************************************************)
(* Properties of the extra headers.                                        *)
(***************************************************************************)
\* The number of ':' in a line.
Colons(line) == Cardinality({ i \in 1..Len(line) : line[i] = ":" })

\* t is s without the spaces at its two ends.
IsTrimOf(t, s) ==
    /\ t = <<>> \/ (t[1] # " " /\ t[Len(t)] # " ")
    /\ \E a \in 0..Len(s) :
          /\ a + Len(t) <= Len(s)
          /\ SubSeq(s, a + 1, a + Len(t)) = t
          /\ \A j \in 1..Len(s) : (j <= a \/ j > a + Len(t)) => s[j] = " "

\* s lists the members of the set S of numbers in ascending order.
Ascending(s, S) ==
    /\ { s[n] : n \in 1..Len(s) } = S
    /\ \A n, m \in 1..Len(s) : n < m => s[n] < s[m]

\* The extra headers were parsed and handed to the browser.
HeadersSet == opts.Headers # <<>> /\ wpc = "listen"

\* C22 as stated: "K: V" parses to the pair ("K","V"), a line without ':' is
\* skipped with a warning, and the number of accepted headers equals the
\* number of input lines that contain exactly one ':' (a line with two or
\* more ':' is not accepted).
C22_ExactlyOneColon ==
    HeadersSet =>
        /\ \A i \in 1..Len(opts.Headers) :
              /\ opts.Headers[i] = <<"K", ":", " ", "V">>
                    => \E n \in 1..Len(accepted) : accepted[n] = i
              /\ Colons(opts.Headers[i]) = 0
                    => \E n \in 1..Len(warned) : warned[n] = i
        /\ Len(accepted)
              = Cardinality({ i \in 1..Len(opts.Headers) :
                                 Colons(opts.Headers[i]) = 1 })

\* C22: extra-header parsing: a line is split at its first ':' and both
\* sides are trimmed, so "K: V" gives ("K","V") and a value may hold
\* further ':'; a line without ':' is skipped with a warning; the accepted
\* lines are the lines with at least one ':'.  Gorod hands over one header
\* per accepted line, in order; Chromedp one header per distinct name, with
\* the value of the last line of that name.
C22_AtLeastOneColon ==
    HeadersSet =>
        LET lines == opts.Headers
            cut(i) == CHOOSE c \in 1..Len(lines[i]) :
                         /\ lines[i][c] = ":"
                         /\ \A j \in 1..(c - 1) : lines[i][j] # ":"
            name(i) == SubSeq(lines[i], 1, cut(i) - 1)
            value(i) == SubSeq(lines[i], cut(i) + 1, Len(lines[i]))
            isPair(h, i) == IsTrimOf(h.Key, name(i)) /\ IsTrimOf(h.Value, value(i))
        IN
        /\ Ascending(accepted, { i \in 1..Len(lines) : Colons(lines[i]) >= 1 })
        /\ Ascending(warned, { i \in 1..Len(lines) : Colons(lines[i]) = 0 })
        /\ opts.driver = "gorod" =>
              /\ Len(extraHeaders) = Len(accepted)
              /\ \A n \in 1..Len(accepted) : isPair(extraHeaders[n], accepted[n])
        /\ opts.driver = "chromedp" =>
              /\ \A n, m \in 1..Len(extraHeaders) :
                    extraHeaders[n].Key = extraHeaders[m].Key => n = m
              /\ \A n \in 1..Len(accepted) :
                    \E h \in 1..Len(extraHeaders) :
                        IsTrimOf(extraHeaders[h].Key, name(accepted[n]))
              /\ \A h \in 1..Len(extraHeaders) :
                    \E n \in 1..Len(accepted) :
                        /\ isPair(extraHeaders[h], accepted[n])
                        /\ \A m \in (n + 1)..Len(accepted) :
                              ~IsTrimOf(extraHeaders[h].Key, name(accepted[m]))

\* A value with a ':' in it is accepted whole, a line without ':' is not.
C22_Witness ==
    /\ wpc = "listen"
    /\ opts.Headers = << <<"K", ":", " ", "V", ":", "W">>, <<"b", "a", "d">> >>
    /\ extraHeaders = << [Key |-> <<"K">>, Value |-> <<"V", ":", "W">>] >>
    /\ accepted = <<1>>
    /\ warned = <<2>>

(***************************************************************************)
(* Further properties of a Witness call.                                   *)
(***************************************************************************)
\* C23: the event listener is registered before navigation starts: in every
\* interleaving, while the Navigate command is issued and running, the
\* handler of the network events is installed, so no event of the first
\* request is emitted unseen.
C23_ListenerBeforeNavigate ==
    wpc = "navigating" => listening

\* C24: whenever the browser binary cannot be started at the first browser
\* interaction of a Witness call, for every kind of start failure (not on
\* the PATH, or a configured binary_path that does not exist), Witness
\* returns the distinguished BrowserNotFound error and the orchestrator
\* cancels the run; the failure is never an ordinary per-target error.
C24_StartFailureIsFatal ==
    (wpc = "returned"
       /\ wret.err \in {"exec: not found", "fork/exec: no such file"})
        => /\ wret.kind = "ChromeNotFound"
           /\ AfterWitness([kind |-> wret.kind, ResponseCode |-> 0]) = "cancel"

\* C25: handling of loadingFailed: for the first request only failed and
\* failed_reason change and network[] is left as it was; for another known
\* request exactly one entry with error = error_text is appended to
\* network[] and the top-level fields are left as they were; for a
\* request_id that is not in netlog (likewise for responseReceived) the
\* Result is left entirely unchanged.
C25_LoadingFailedFrame ==
    [][ \A e \in Events :
          (DevToolsEvent(e) /\ ListenerActive) =>
            LET n == Len(result.Network) IN
            CASE e.type = "loadingFailed" /\ netlog[e.id].known /\ first = e.id ->
                   /\ result'.Failed /\ result'.FailedReason = e.err
                   /\ [result' EXCEPT !.Failed = result.Failed,
                                      !.FailedReason = result.FailedReason]
                        = result
              [] e.type = "loadingFailed" /\ netlog[e.id].known /\ first # e.id ->
                   /\ Len(result'.Network) = n + 1
                   /\ SubSeq(result'.Network, 1, n) = result.Network
                   /\ result'.Network[n + 1].Error = e.err
                   /\ result'.Network[n + 1].req = e.id
                   /\ [result' EXCEPT !.Network = result.Network] = result
              [] e.type \in {"loadingFailed", "responseReceived"}
                   /\ ~netlog[e.id].known ->
                   result' = result
              [] OTHER -> TRUE ]_vars

\* A loadingFailed of the first request and one of a sub-request were
\* handled in one probe.
C25_Witness ==
    /\ nev = 4
    /\ first = 1
    /\ netlog[2].known
    /\ lfFirst
    /\ result.Failed /\ result.FailedReason = "net::ERR"
    /\ Len(result.Network) = 1
    /\ result.Network[1].req = 2
    /\ result.Network[1].Error = "net::ERR"
    /\ result.ResponseCode = 0

InFlight == Cardinality({ w \in Workers : pc[w] = "witness" })

C29_RunWaitsForWorkers ==
    /\ [](runState = "returned"
            => /\ \A w \in Workers : pc[w] = "done"
               /\ \A i \in Slots : outcome[i] # "inflight")
    /\ [][ runState = "returned"
             => /\ pc' = pc
                /\ outcome' = outcome
                /\ witnessed' = witnessed
                /\ wcalls' = wcalls ]_vars

\* Run has returned after a cancellation; the call of the other worker
\* came back with a Result, which went to all the writers.
C29_Witness ==
    /\ runState = "returned"
    /\ cancelled
    /\ outcome[1] = "ChromeNotFound"
    /\ outcome[2] = "ok"
    /\ wcalls[2] = AllWriters

(***************************************************************************)
(* Properties of the body fetches.                                         *)
(***************************************************************************)
\* C30: with save_content, the index a body-fetch goroutine captured stays
\* within network[] and keeps designating the entry appended for its
\* response: network[] only grows by appending and its entries are never
\* removed or reordered, so a body is never written to the entry of another
\* request; a body fetch that fails leaves the content of its entry unset.
C30_BodyFetchIndex ==
    /\ [](\A t \in fetches :
            /\ t.index \in 1..Len(result.Network)
            /\ result.Network[t.index].req = t.req
            /\ result.Network[t.index].StatusCode = t.status
            /\ result.Network[t.index].URL = t.url
            /\ result.Network[t.index].Error = "")
    /\ [][ wpc' # "entry"
             => /\ Len(result'.Network) >= Len(result.Network)
                /\ \A k \in 1..Len(result.Network) :
                      [result'.Network[k] EXCEPT
                          !.Content = result.Network[k].Content]
                        = result.Network[k] ]_vars
    /\ [][ \A t \in fetches :
              BodyFetchWrite(t)
                => /\ \A k \in 1..Len(result.Network) :
                         k # t.index => result'.Network[k] = result.Network[k]
                   /\ result'.Network[t.index].Content
                        = IF t.stage = "body" THEN "body" ELSE "" ]_vars

\* The body of the first response was written to its entry after a second
\* response had been appended.
C30_Witness ==
    /\ opts.SaveContent
    /\ fetches = {}
    /\ Len(result.Network) = 2
    /\ result.Network[1].Content = "body"
    /\ result.Network[1].StatusCode = 200
    /\ result.Network[2].Content = ""
    /\ result.Network[2].StatusCode = 404

=============================================================================
